---------------------------- MODULE Spec2Model ----------------------------
(***************************************************************************)
(* A model of the three mechanisms of the customs-clearance tracker:       *)
(*   - the per-client step plan (clients/views.py, ClientStep),            *)
(*   - the tracking / revision records (trackings, revisions),             *)
(*   - the document ledger and the daily expiration job (clients/tasks.py, *)
(*     ClientDocument, Notification).                                      *)
(* Every view or task is one action; the database tables are the state.    *)
(* Each mechanism has its own specification (SpecPlan, SpecTrack, ...):    *)
(* the tables of the other mechanisms stay at their initial value.         *)
(***************************************************************************)
EXTENDS Integers, Sequences, FiniteSets, Bags, TLC

VARIABLES
    clientSteps,    \* table client_steps: client -> (step id -> row)
    trackings,      \* table trackings: tracking id -> row
    revisions,      \* table revisions, in insertion order
    documents,      \* table client_documents: document id -> row
    notifications,  \* table notifications, in insertion order
    today,          \* timezone.now().date(), as a day number
    nRequired,      \* number of DocumentCategory rows with is_required=True
    clients,        \* table clients: client id -> row
    verifications,  \* table sat_verifications, in insertion order
    manifests,      \* table client_manifests: manifest id -> row
    queue,          \* the task messages the Celery broker holds
    procs,          \* the requests and task runs in progress
    cycle,          \* the time of day and the tasks sent and finished today
    resp            \* the last request served and its response

vars == <<clientSteps, trackings, revisions, documents, notifications,
          today, nRequired, clients, verifications, manifests, queue, procs,
          cycle, resp>>

(***************************************************************************)
(* Bounds of the model.                                                    *)
(***************************************************************************)
\* longest step_ids list posted to reorder_client_steps
MaxIds == 2
\* most Revision rows created
MaxRevisions == 1
\* last day the clock reaches (the first day is 0)
MaxDay == 1
\* most Notification rows created
MaxNotifications == 2

\* a null DateTimeField / DateField
NoDate == -1

(***************************************************************************)
(* The idle response: nothing has been requested yet.  Every response has  *)
(* the same fields, so that two responses can always be compared.          *)
(***************************************************************************)
NoResp ==
    [op |-> "none", client |-> 0, step |-> 0, ids |-> << >>, mode |-> "",
     targets |-> {}, status |-> "", doc |-> 0, count |-> 0, prev |-> "",
     prevCount |-> 0, document_date |-> NoDate, expiration_date |-> NoDate,
     result |-> ""]

(***************************************************************************)
(*                        STEP CATALOG (steps.Step)                        *)
(***************************************************************************)
\* Step rows by primary key; the key is not the step's number.
Steps ==
    [id \in 1..4 |->
        CASE id = 1 -> [number |-> 1,  imp |-> TRUE,  exp |-> TRUE,  is_fixed |-> TRUE]
          [] id = 2 -> [number |-> 3,  imp |-> FALSE, exp |-> TRUE,  is_fixed |-> FALSE]
          [] id = 3 -> [number |-> 2,  imp |-> TRUE,  exp |-> FALSE, is_fixed |-> FALSE]
          [] id = 4 -> [number |-> 14, imp |-> TRUE,  exp |-> TRUE,  is_fixed |-> TRUE]]

StepIds == DOMAIN Steps

\* a primary key that no Step row has (a step id of a removed assignment)
UnknownStepId == 9

Clients == {1}

\* order of the first fixed step (order=0, "Siempre primero")
FirstOrder == 0
\* order of the last fixed step (order=9999, "Siempre ultimo")
LastOrder == 9999
\* number of the fixed first step ("Paso 1: Recepcion de documentos")
FirstNumber == 1
\* number of the fixed last step ("Paso 14: Comprobante de Pago/Devolucion")
LastNumber == 14

\* the fixed steps client_steps_view looks for
FixedFirst == {s \in StepIds : Steps[s].is_fixed /\ Steps[s].number = FirstNumber}
FixedLast  == {s \in StepIds : Steps[s].is_fixed /\ Steps[s].number = LastNumber}
\* Step.objects.filter(is_fixed=True)
FixedSteps == {s \in StepIds : Steps[s].is_fixed}

(***************************************************************************)
(*                   CLIENT STEP PLAN (clients.ClientStep)                 *)
(***************************************************************************)
\* the ClientStep rows of client c: a function from the assigned step ids
Plan(c) == clientSteps[c]
Assigned(c) == DOMAIN clientSteps[c]

Row(o, a) == [order |-> o, is_active |-> a]

\* ClientStep.objects.create(client, step, order, is_active) on the rows p
CreateRow(p, s, o, a) == (s :> Row(o, a)) @@ p

\* ClientStep.objects.get_or_create(client, step, defaults): rows kept when
\* the (client, step) row exists
GetOrCreateRow(p, s, o, a) == IF s \in DOMAIN p THEN p ELSE CreateRow(p, s, o, a)

\* client_step.delete() / queryset.delete() of the rows of the steps in S
DeleteRows(p, S) == [s \in (DOMAIN p) \ S |-> p[s]]

\* client_steps_view without its second block: only the first fixed step is
\* created
EnsureFixedOnViewFirstOnly(p) ==
    IF FixedFirst # {} /\ ~(FixedFirst \subseteq DOMAIN p)
    THEN CreateRow(p, CHOOSE s \in FixedFirst : TRUE, FirstOrder, TRUE)
    ELSE p

\* client_steps_view: the fixed steps that are not assigned are created
EnsureFixedOnView(p) ==
    LET p1 == IF FixedFirst # {} /\ ~(FixedFirst \subseteq DOMAIN p)
              THEN CreateRow(p, CHOOSE s \in FixedFirst : TRUE, FirstOrder, TRUE)
              ELSE p
    IN  IF FixedLast # {} /\ ~(FixedLast \subseteq DOMAIN p1)
        THEN CreateRow(p1, CHOOSE s \in FixedLast : TRUE, LastOrder, TRUE)
        ELSE p1

OtherTables == <<trackings, revisions, documents, notifications, today, nRequired,
                 clients, verifications, manifests, queue, procs, cycle>>

GetPlan(c) ==
    /\ clientSteps' = [clientSteps EXCEPT ![c] = EnsureFixedOnView(@)]
    /\ resp' = [NoResp EXCEPT !.op = "getPlan", !.client = c, !.result = "ok"]
    /\ UNCHANGED OtherTables


\* toggle_client_step without its is_fixed check
ToggleUnguarded(c, s) ==
    /\ IF s \in Assigned(c)
       THEN /\ clientSteps' = [clientSteps EXCEPT ![c] = DeleteRows(@, {s})]
            /\ resp' = [NoResp EXCEPT !.op = "toggle", !.client = c, !.step = s,
                                      !.result = "removed"]
       ELSE /\ clientSteps' = [clientSteps EXCEPT
                                 ![c] = CreateRow(@, s, Steps[s].number, TRUE)]
            /\ resp' = [NoResp EXCEPT !.op = "toggle", !.client = c, !.step = s,
                                      !.result = "added"]
    /\ UNCHANGED OtherTables

\* toggle_client_step with defaults order = step.id instead of step.number
ToggleOrderByPk(c, s) ==
    /\ IF Steps[s].is_fixed
       THEN /\ clientSteps' = clientSteps
            /\ resp' = [NoResp EXCEPT !.op = "toggle", !.client = c, !.step = s,
                                      !.result = "error_fixed"]
       ELSE IF s \in Assigned(c)
       THEN /\ clientSteps' = [clientSteps EXCEPT ![c] = DeleteRows(@, {s})]
            /\ resp' = [NoResp EXCEPT !.op = "toggle", !.client = c, !.step = s,
                                      !.result = "removed"]
       ELSE /\ clientSteps' = [clientSteps EXCEPT ![c] = CreateRow(@, s, s, TRUE)]
            /\ resp' = [NoResp EXCEPT !.op = "toggle", !.client = c, !.step = s,
                                      !.result = "added"]
    /\ UNCHANGED OtherTables

\* toggle_client_step: a fixed step is refused; otherwise get_or_create with
\* order = step.number, and the row is deleted when it already existed
Toggle(c, s) ==
    /\ IF Steps[s].is_fixed
       THEN /\ clientSteps' = clientSteps
            /\ resp' = [NoResp EXCEPT !.op = "toggle", !.client = c, !.step = s,
                                      !.result = "error_fixed"]
       ELSE IF s \in Assigned(c)
       THEN /\ clientSteps' = [clientSteps EXCEPT ![c] = DeleteRows(@, {s})]
            /\ resp' = [NoResp EXCEPT !.op = "toggle", !.client = c, !.step = s,
                                      !.result = "removed"]
       ELSE /\ clientSteps' = [clientSteps EXCEPT
                                 ![c] = CreateRow(@, s, Steps[s].number, TRUE)]
            /\ resp' = [NoResp EXCEPT !.op = "toggle", !.client = c, !.step = s,
                                      !.result = "added"]
    /\ UNCHANGED OtherTables

\* the values of the POST field 'order': absent, an integer, not an integer
OrderInputs == {"absent", "5", "abc"}
\* the values of the POST field 'is_active': absent, 'true', anything else
ActiveInputs == {"absent", "true", "false"}
\* int(order) for the integer inputs
IntOf(o) == IF o = "5" THEN 5 ELSE 0

\* update_client_step: 404 without a row, 400 when order is no integer
\* (nothing saved), else the supplied fields are written
UpdateStep(c, s, o, a) ==
    /\ IF s \notin Assigned(c)
       THEN /\ clientSteps' = clientSteps
            /\ resp' = [NoResp EXCEPT !.op = "update", !.client = c, !.step = s,
                                      !.result = "error_not_assigned"]
       ELSE IF o = "abc"
       THEN /\ clientSteps' = clientSteps
            /\ resp' = [NoResp EXCEPT !.op = "update", !.client = c, !.step = s,
                                      !.result = "error_order"]
       ELSE /\ clientSteps' = [clientSteps EXCEPT ![c][s] =
                   Row(IF o = "absent" THEN @.order ELSE IntOf(o),
                       IF a = "absent" THEN @.is_active ELSE a = "true")]
            /\ resp' = [NoResp EXCEPT !.op = "update", !.client = c, !.step = s,
                                      !.result = "ok"]
    /\ UNCHANGED OtherTables

\* the values of the POST field 'type'
BulkModes == {"imp", "exp", "all", "none", "other"}

\* Step.objects.filter(imp=True | exp=True | -, is_fixed=False)
BulkSteps(mode) ==
    {s \in StepIds : /\ ~Steps[s].is_fixed
                     /\ CASE mode = "imp" -> Steps[s].imp
                          [] mode = "exp" -> Steps[s].exp
                          [] OTHER -> TRUE}

\* first value of the order counter of bulk_assign_steps
BulkStart == 1

\* the creation loop without order_by('number'): the steps come by primary key
RECURSIVE BulkCreateByPk(_, _, _)
BulkCreateByPk(p, S, order) ==
    IF S = {} THEN p
    ELSE LET s == CHOOSE x \in S : \A y \in S : x <= y
         IN  BulkCreateByPk(CreateRow(p, s, order, TRUE), S \ {s}, order + 1)

\* for step in steps.order_by('number'): create(order=order); order += 1
RECURSIVE BulkCreate(_, _, _)
BulkCreate(p, S, order) ==
    IF S = {} THEN p
    ELSE LET s == CHOOSE x \in S : \A y \in S : Steps[x].number <= Steps[y].number
         IN  BulkCreate(CreateRow(p, s, order, TRUE), S \ {s}, order + 1)

\* for fixed_step in fixed_steps: get_or_create(defaults order 0 or 9999)
RECURSIVE EnsureFixedBulk(_, _)
EnsureFixedBulk(p, S) ==
    IF S = {} THEN p
    ELSE LET s == CHOOSE x \in S : TRUE
         IN  EnsureFixedBulk(
                 GetOrCreateRow(p, s,
                     IF Steps[s].number = FirstNumber THEN FirstOrder ELSE LastOrder,
                     TRUE),
                 S \ {s})

\* the non-fixed rows of a client: filter(client=client, step__is_fixed=False)
OptionalRows(p) == {s \in DOMAIN p : ~Steps[s].is_fixed}

\* the rows bulk_assign_steps leaves for each type
BulkResult(p, mode) ==
    IF mode = "none"
    THEN DeleteRows(p, OptionalRows(p))
    ELSE IF mode \in {"imp", "exp", "all"}
    THEN EnsureFixedBulk(
             BulkCreate(DeleteRows(p, OptionalRows(p)), BulkSteps(mode), BulkStart),
             FixedSteps)
    ELSE p

BulkAssign(c, mode) ==
    /\ clientSteps' = [clientSteps EXCEPT ![c] = BulkResult(@, mode)]
    /\ resp' = [NoResp EXCEPT !.op = "bulk", !.client = c, !.mode = mode,
                              !.result = "redirect"]
    /\ UNCHANGED OtherTables

\* first position of enumerate(step_ids, start=1)
ReorderStart == 1

\* the reorder loop without its is_fixed check: fixed rows are renumbered too
RECURSIVE ReorderLoopAllRows(_, _, _)
ReorderLoopAllRows(p, ids, i) ==
    IF i > Len(ids) THEN p
    ELSE IF ids[i] \in DOMAIN p
         THEN ReorderLoopAllRows([p EXCEPT ![ids[i]].order = ReorderStart + (i - 1)],
                                 ids, i + 1)
         ELSE ReorderLoopAllRows(p, ids, i + 1)

\* for order, step_id in enumerate(step_ids, start=1): the row of a non-fixed
\* step takes the position; a missing row is skipped (DoesNotExist: continue)
RECURSIVE ReorderLoop(_, _, _)
ReorderLoop(p, ids, i) ==
    IF i > Len(ids) THEN p
    ELSE LET s == ids[i]
             order == ReorderStart + (i - 1)
         IN  IF s \in DOMAIN p /\ ~Steps[s].is_fixed
             THEN ReorderLoop([p EXCEPT ![s].order = order], ids, i + 1)
             ELSE ReorderLoop(p, ids, i + 1)

\* the step_ids lists a request may carry
RECURSIVE SeqsUpTo(_, _)
SeqsUpTo(S, n) ==
    IF n = 0 THEN {<< >>}
    ELSE LET shorter == SeqsUpTo(S, n - 1)
         IN  shorter \cup {Append(q, x) : q \in shorter, x \in S}

\* the ids the posted lists are drawn from: a fixed step, the optional steps
\* and an id without a Step row
ReorderIds == {s \in StepIds : Steps[s].number # LastNumber} \cup {UnknownStepId}

IdLists == SeqsUpTo(ReorderIds, MaxIds)

\* reorder_client_steps: an empty list is refused with 400
Reorder(c, ids) ==
    /\ IF ids = << >>
       THEN /\ clientSteps' = clientSteps
            /\ resp' = [NoResp EXCEPT !.op = "reorder", !.client = c, !.ids = ids,
                                      !.result = "error_empty"]
       ELSE /\ clientSteps' = [clientSteps EXCEPT ![c] = ReorderLoop(@, ids, 1)]
            /\ resp' = [NoResp EXCEPT !.op = "reorder", !.client = c, !.ids = ids,
                                      !.result = "ok"]
    /\ UNCHANGED OtherTables

\* no ClientStep row exists for a new client
NoRows == [s \in {} |-> Row(0, TRUE)]

\* the Client rows
ClientIds == {1, 2}

\* a client as the job tables find it first: visible, with an RFC, its
\* dossier not marked complete
NewClient == [show |-> TRUE, rfc |-> "VALID", expediente_completo |-> FALSE]

\* the worker processes and request handlers that may run at the same time
Procs == {1, 2}

\* a process that runs nothing: no loop entered, nothing left to handle
IdleProc == [pc |-> "idle", mode |-> "", todo |-> {}, cur |-> 0]

\* the first instant of a day: nothing sent by the beat schedule, no task
\* finished
NewCycle == [clock |-> 0, sent |-> {}, done |-> {}]

\* no manifest, verification, queued task or request in progress
InitLater ==
    /\ clients = [c \in ClientIds |-> NewClient]
    /\ verifications = << >>
    /\ manifests = << >>
    /\ queue = {}
    /\ procs = [p \in Procs |-> IdleProc]
    /\ cycle = NewCycle

InitOther ==
    /\ InitLater
    /\ trackings = << >>
    /\ revisions = << >>
    /\ documents = << >>
    /\ notifications = EmptyBag
    /\ today = 0
    /\ nRequired = 0

InitPlan ==
    /\ clientSteps = [c \in Clients |-> NoRows]
    /\ resp = NoResp
    /\ InitOther

NextPlan ==
    \E c \in Clients :
        \/ GetPlan(c)
        \/ \E s \in StepIds : Toggle(c, s)
        \/ \E s \in StepIds, o \in OrderInputs, a \in ActiveInputs : UpdateStep(c, s, o, a)
        \/ \E mode \in BulkModes : BulkAssign(c, mode)
        \/ \E ids \in IdLists : Reorder(c, ids)

SpecPlan == InitPlan /\ [][NextPlan]_vars

\* the plan as the step-configuration screen drives it: the view, toggle,
\* bulk assignment and drag-and-drop reordering (no update_client_step)
NextPlanScreen ==
    \E c \in Clients :
        \/ GetPlan(c)
        \/ \E s \in StepIds : Toggle(c, s)
        \/ \E mode \in BulkModes : BulkAssign(c, mode)
        \/ \E ids \in IdLists : Reorder(c, ids)

SpecPlanScreen == InitPlan /\ [][NextPlanScreen]_vars

(***************************************************************************)
(*          TRACKINGS AND REVISIONS (trackings.Tracking, Revision)         *)
(***************************************************************************)
\* Tracking.STATUS_CHOICES
TrackStatuses == {"PENDING", "IN_PROGRESS", "COMPLETED", "CANCELLED"}

\* Shipment rows and the step numbers a tracking form may name
Shipments == {1}
TrackSteps == {1, 2}
\* the primary keys the trackings table hands out, in this order
TrackingIds == {1, 2}

PlanTables == <<clientSteps, documents, notifications, nRequired,
                clients, verifications, manifests, queue, procs, cycle>>

\* the clock: a day passes
Tick ==
    /\ today < MaxDay
    /\ today' = today + 1
    /\ resp' = [NoResp EXCEPT !.op = "tick"]
    /\ UNCHANGED <<clientSteps, trackings, revisions, documents, notifications,
                   nRequired, clients, verifications, manifests, queue, procs,
                   cycle>>

\* TrackingCreateView with TrackingForm: any shipment, step and status choice
\* is saved as a new row; finish_date is left empty
CreateTracking(sh, st, status) ==
    /\ Len(trackings) + 1 \in TrackingIds
    /\ trackings' = Append(trackings,
           [shipment |-> sh, step |-> st, status |-> status, finish_date |-> NoDate])
    /\ resp' = [NoResp EXCEPT !.op = "create", !.targets = {Len(trackings) + 1},
                              !.status = status, !.result = "ok"]
    /\ UNCHANGED <<revisions, today>>
    /\ UNCHANGED PlanTables

\* the admin actions mark_as_completed / mark_as_in_progress /
\* mark_as_cancelled: queryset.update on the selected rows
MarkedRow(row, status) ==
    IF status = "COMPLETED"
    THEN [row EXCEPT !.status = status, !.finish_date = today]
    ELSE [row EXCEPT !.status = status]

\* the statuses the three admin actions write
MarkStatuses == {"COMPLETED", "IN_PROGRESS", "CANCELLED"}

AdminMark(S, status) ==
    /\ S # {}
    /\ trackings' = [id \in DOMAIN trackings |->
                        IF id \in S THEN MarkedRow(trackings[id], status)
                        ELSE trackings[id]]
    /\ resp' = [NoResp EXCEPT !.op = "mark", !.targets = S, !.status = status,
                              !.result = "ok"]
    /\ UNCHANGED <<revisions, today>>
    /\ UNCHANGED PlanTables

\* the POST fields of quick_add_revision after strip()
NotesInputs == {"", "ok"}
StatusInputs == TrackStatuses \cup {""}

\* a tracking_id that is not posted
NoTrackingId == 0

\* the status write moved under the COMPLETED test: any other new status is
\* not written
RevisedRowOnlyCompleted(row, new_status) ==
    IF new_status = "COMPLETED"
    THEN [row EXCEPT !.status = new_status, !.finish_date = today]
    ELSE row

\* tracking.status = new_status; finish_date = now when COMPLETED; save()
RevisedRow(row, new_status) ==
    IF new_status = "COMPLETED"
    THEN [row EXCEPT !.status = new_status, !.finish_date = today]
    ELSE [row EXCEPT !.status = new_status]

\* quick_add_revision: 400 without tracking_id or notes, 404 without the row;
\* else the Revision is created, and then the tracking takes the new status
\* when one is posted that differs from its own
QuickAddRevision(tid, notes, new_status) ==
    /\ Len(revisions) < MaxRevisions
    /\ IF tid = NoTrackingId
       THEN /\ UNCHANGED <<trackings, revisions>>
            /\ resp' = [NoResp EXCEPT !.op = "record", !.targets = {tid},
                           !.status = new_status,
                           !.result = "error_no_tracking_id"]
       ELSE IF notes = ""
       THEN /\ UNCHANGED <<trackings, revisions>>
            /\ resp' = [NoResp EXCEPT !.op = "record", !.targets = {tid},
                           !.status = new_status,
                           !.result = "error_empty_notes"]
       ELSE IF tid \notin DOMAIN trackings
       THEN /\ UNCHANGED <<trackings, revisions>>
            /\ resp' = [NoResp EXCEPT !.op = "record", !.targets = {tid},
                           !.status = new_status,
                           !.result = "error_not_found"]
       ELSE /\ revisions' = Append(revisions,
                   [tracking |-> tid, step |-> trackings[tid].step,
                    status |-> IF new_status # "" THEN new_status
                               ELSE trackings[tid].status])
            /\ trackings' =
                   IF new_status # "" /\ new_status # trackings[tid].status
                   THEN [trackings EXCEPT ![tid] = RevisedRow(@, new_status)]
                   ELSE trackings
            /\ resp' = [NoResp EXCEPT !.op = "record", !.targets = {tid},
                           !.status = new_status,
                           !.result = "ok"]
    /\ UNCHANGED today
    /\ UNCHANGED PlanTables

InitTrack ==
    /\ clientSteps = [c \in Clients |-> NoRows]
    /\ resp = NoResp
    /\ InitOther

NextTrack ==
    \/ Tick
    \/ \E sh \in Shipments, st \in TrackSteps, status \in TrackStatuses :
           CreateTracking(sh, st, status)
    \/ \E S \in SUBSET (DOMAIN trackings), status \in MarkStatuses : AdminMark(S, status)
    \/ \E tid \in TrackingIds \cup {NoTrackingId}, notes \in NotesInputs,
          new_status \in StatusInputs : QuickAddRevision(tid, notes, new_status)

SpecTrack == InitTrack /\ [][NextTrack]_vars

(***************************************************************************)
(*      DOCUMENT LEDGER (clients.ClientDocument, DocumentCategory)         *)
(***************************************************************************)
\* DocumentCategory rows: category 0 is optional (is_required=False), the
\* categories 1..nRequired are required
Categories == 0..nRequired
RequiredCategories == {cat \in Categories : cat >= 1}

\* a null validity_months
NoValidity == -1
\* DocumentCategory.validity_months: category 1 is valid for one month,
\* category 2 for 0 months, the others have none (null)
ValidityMonths(cat) == IF cat = 1 THEN 1 ELSE IF cat = 2 THEN 0 ELSE NoValidity

\* the truth value Python gives validity_months: None and 0 are false
HasValidity(cat) == ValidityMonths(cat) # NoValidity /\ ValidityMonths(cat) # 0

\* timedelta(days=validity_months * 30)
DaysPerMonth == 30

\* ClientDocument.STATUS_CHOICES
DocStatuses == {"PENDIENTE", "APROBADO", "RECHAZADO", "VENCIDO"}

\* the primary keys the client_documents table hands out, in this order
DocIds == {1, 2}
DocClients == {1}

\* ClientDocument.is_expired
IsExpired(row) ==
    IF row.expiration_date # NoDate THEN row.expiration_date < today ELSE FALSE

\* ClientDocument.save without its "Actualizar estado si esta vencido" block
SaveDocumentNoExpiry(row, document_date) ==
    IF row.expiration_date = NoDate /\ HasValidity(row.category)
    THEN [row EXCEPT !.expiration_date =
             (IF document_date # NoDate THEN document_date ELSE today)
                 + ValidityMonths(row.category) * DaysPerMonth]
    ELSE row

\* ClientDocument.save with base_date = today, document_date ignored
SaveDocumentFromToday(row, document_date) ==
    LET derived ==
            IF row.expiration_date = NoDate /\ HasValidity(row.category)
            THEN [row EXCEPT !.expiration_date =
                     today + ValidityMonths(row.category) * DaysPerMonth]
            ELSE row
    IN  IF (derived.expiration_date # NoDate /\ derived.expiration_date < today)
           /\ derived.status = "APROBADO"
        THEN [derived EXCEPT !.status = "VENCIDO"]
        ELSE derived

\* ClientDocument.save: the expiration date is derived from the category's
\* validity when none is set (base: document_date, else today), and an
\* APROBADO document that is overdue is stored as VENCIDO
SaveDocument(row, document_date) ==
    LET derived ==
            IF row.expiration_date = NoDate /\ HasValidity(row.category)
            THEN [row EXCEPT !.expiration_date =
                     (IF document_date # NoDate THEN document_date ELSE today)
                         + ValidityMonths(row.category) * DaysPerMonth]
            ELSE row
    IN  IF IsExpired(derived) /\ derived.status = "APROBADO"
        THEN [derived EXCEPT !.status = "VENCIDO"]
        ELSE derived

TrackTables == <<clientSteps, trackings, revisions,
                 clients, verifications, manifests, queue, procs, cycle>>

\* expiration_warning_days = 30
ExpirationWarningDays == 30

\* a date after the warning window of every day of the model
FarDate == MaxDay + ExpirationWarningDays + 1

\* the dates an upload form may carry
UploadDates == {NoDate, 0, 1, FarDate}

\* client_document_upload: the form's document is saved with status PENDIENTE
Upload(c, cat, document_date, expiration_date) ==
    /\ Len(documents) + 1 \in DocIds
    /\ documents' = Append(documents,
           SaveDocument([client |-> c, category |-> cat, status |-> "PENDIENTE",
                         expiration_date |-> expiration_date], document_date))
    /\ resp' = [NoResp EXCEPT !.op = "upload", !.client = c,
                              !.doc = Len(documents) + 1,
                              !.document_date = document_date,
                              !.expiration_date = expiration_date,
                              !.result = "ok"]
    /\ UNCHANGED <<notifications, today, nRequired>>
    /\ UNCHANGED TrackTables

\* client_document_review: ClientDocumentReviewForm writes the posted status
\* (any of STATUS_CHOICES), then save()
Review(d, status) ==
    /\ d \in DOMAIN documents
    /\ documents' = [documents EXCEPT
                        ![d] = SaveDocument([@ EXCEPT !.status = status], NoDate)]
    /\ resp' = [NoResp EXCEPT !.op = "review", !.client = documents[d].client,
                              !.doc = d, !.status = status, !.result = "ok"]
    /\ UNCHANGED <<notifications, today, nRequired>>
    /\ UNCHANGED TrackTables

(***************************************************************************)
(*        NOTIFICATIONS AND JOB A (clients.tasks, Notification)            *)
(***************************************************************************)
\* a Notification row; content_type is NULL or names a model
Notif(type, ctype, object_id) ==
    [notification_type |-> type, content_type |-> ctype, object_id |-> object_id]

\* the rows Notification.objects.get(notification_type=type,
\* content_type__model='clientdocument', object_id=pk) selects: the join on
\* content_type leaves out the rows whose content_type is NULL
Matching(ns, type, pk) ==
    CopiesIn(Notif(type, "clientdocument", pk), ns)

\* Notification.objects.get_or_create(notification_type, content_type__model,
\* object_id, defaults): without a matching row one is created from the
\* lookups that name a field (notification_type, object_id) and the defaults,
\* so its content_type stays NULL
GetOrCreateNotif(ns, type, pk) ==
    IF Matching(ns, type, pk) >= 1 THEN ns
    ELSE ns (+) SetToBag({Notif(type, "NULL", pk)})

\* for doc in queryset: get_or_create(...)
RECURSIVE NotifyAll(_, _, _)
NotifyAll(ns, type, D) ==
    IF D = {} THEN ns
    ELSE LET d == CHOOSE x \in D : \A y \in D : x <= y
         IN  NotifyAll(GetOrCreateNotif(ns, type, d), type, D \ {d})

\* a variant of the sweep's filter with expiration_date__lte
OverdueInclusive(row) ==
    /\ row.expiration_date # NoDate
    /\ row.expiration_date <= today
    /\ row.status \in {"PENDIENTE", "APROBADO"}

\* a variant of the sweep's filter without its status__in condition
OverdueAnyStatus(row) ==
    /\ row.expiration_date # NoDate
    /\ row.expiration_date < today

\* the rows filter(expiration_date__lt=today,
\*                 status__in=['PENDIENTE', 'APROBADO']) selects
Overdue(row) ==
    /\ row.expiration_date # NoDate
    /\ row.expiration_date < today
    /\ row.status \in {"PENDIENTE", "APROBADO"}

\* expired_docs
ExpiredDocs(docs) == {d \in DOMAIN docs : Overdue(docs[d])}

\* expired_docs.update(status='VENCIDO')
Sweep(docs) ==
    [d \in DOMAIN docs |->
        IF Overdue(docs[d]) THEN [docs[d] EXCEPT !.status = "VENCIDO"]
        ELSE docs[d]]

\* filter(expiration_date__gte=today, expiration_date__lte=today + 30 days,
\*        status='APROBADO')
ExpiringSoon(docs) ==
    {d \in DOMAIN docs : /\ docs[d].expiration_date # NoDate
                         /\ docs[d].expiration_date >= today
                         /\ docs[d].expiration_date <= today + ExpirationWarningDays
                         /\ docs[d].status = "APROBADO"}

\* filter(status='VENCIDO')
ExpiredList(docs) == {d \in DOMAIN docs : docs[d].status = "VENCIDO"}

\* the notifications table after both loops of check_document_expiration
JobANotifications(ns, docs) ==
    NotifyAll(NotifyAll(ns, "DOCUMENT_EXPIRING", ExpiringSoon(docs)),
              "DOCUMENT_EXPIRED", ExpiredList(docs))

\* check_document_expiration: the sweep, then the two notification loops;
\* returns expired_marked
JobAWrites ==
    LET swept == Sweep(documents)
        created == JobANotifications(notifications, swept)
    IN  /\ BagCardinality(created) <= MaxNotifications
        /\ documents' = swept
        /\ notifications' = created
        /\ resp' = [NoResp EXCEPT !.op = "jobA",
                                  !.count = Cardinality(ExpiredDocs(documents)),
                                  !.prev = resp.op, !.prevCount = resp.count,
                                  !.result = "ok"]

\* a run of the task by itself
JobA ==
    /\ JobAWrites
    /\ UNCHANGED <<today, nRequired>>
    /\ UNCHANGED TrackTables

InitDocs ==
    /\ InitLater
    /\ clientSteps = [c \in Clients |-> NoRows]
    /\ trackings = << >>
    /\ revisions = << >>
    /\ documents = << >>
    /\ notifications = EmptyBag
    /\ today = 0
    /\ nRequired = 2
    /\ resp = NoResp

NextDocs ==
    \/ Tick
    \/ \E c \in DocClients, cat \in Categories, dd \in {NoDate, 0}, ed \in UploadDates :
           Upload(c, cat, dd, ed)
    \/ \E d \in DocIds, status \in DocStatuses : Review(d, status)
    \/ JobA

SpecDocs == InitDocs /\ [][NextDocs]_vars

(***************************************************************************)
(*          DOSSIER COMPLETENESS (Client.calcular_completitud_expediente)  *)
(***************************************************************************)
\* the pairs (completadas, total), total < 130, at which the double
\* (completadas / total) * 100 lies just below the integer 100 * completadas
\* / total, so that int() yields one less than the exact quotient
FloatShort == {<<29, 50>>, <<29, 100>>, <<57, 100>>, <<58, 100>>}

\* int((completadas / total) * 100) in double arithmetic, for total < 130
PercentInt(completadas, total) ==
    IF <<completadas, total>> \in FloatShort
    THEN (completadas * 100) \div total - 1
    ELSE (completadas * 100) \div total

\* a variant that counts a category as soon as the client has any document in it
DocumentedCategories(docs, c) ==
    {docs[d].category : d \in {x \in DOMAIN docs : docs[x].client = c}}
        \cap RequiredCategories

\* the required categories cat for which
\* self.documents.filter(category=cat, status='APROBADO').exists()
ApprovedCategories(docs, c) ==
    {docs[d].category :
        d \in {x \in DOMAIN docs : docs[x].client = c /\ docs[x].status = "APROBADO"}}
        \cap RequiredCategories

\* Client.calcular_completitud_expediente on the ledger docs
CompletenessOf(docs, c) ==
    IF Cardinality(RequiredCategories) = 0 THEN 100
    ELSE PercentInt(Cardinality(ApprovedCategories(docs, c)),
                    Cardinality(RequiredCategories))

\* completeness_percentage of client_expediente_view on the ledger docs
ExpedientePercent(docs, c) ==
    IF Cardinality(RequiredCategories) > 0
    THEN PercentInt(Cardinality(ApprovedCategories(docs, c)),
                    Cardinality(RequiredCategories))
    ELSE 0

\* the numbers of required categories explored: the small ones, 50 and 100
\* (where the double quotient falls short) and 99
RequiredCounts == {0, 2, 50, 99, 100}

\* a ledger of len approved documents of client 1, document i in category i,
\* except that with dup the last one is a second document of category
\* len - 1; the last document expires on lastDate, the others on FarDate
InitialLedger(len, dup, lastDate) ==
    [i \in 1..len |->
        [client |-> 1,
         category |-> IF dup /\ i = len THEN len - 1 ELSE i,
         status |-> "APROBADO",
         expiration_date |-> IF i = len THEN lastDate ELSE FarDate]]

\* a dossier on the last day, its last document overdue since day 0 or not
InitCompl ==
    /\ InitLater
    /\ clientSteps = [c \in Clients |-> NoRows]
    /\ trackings = << >>
    /\ revisions = << >>
    /\ notifications = EmptyBag
    /\ today = MaxDay
    /\ nRequired \in RequiredCounts
    /\ \E len \in 0..nRequired, dup \in BOOLEAN, lastDate \in {0, FarDate} :
           /\ dup => len >= 2
           /\ documents = InitialLedger(len, dup, lastDate)
    /\ resp = NoResp

\* the review screen and Job A on a dossier, the reviews on its last document
NextCompl ==
    \/ \E status \in DocStatuses : Review(Len(documents), status)
    \/ JobA

SpecCompl == InitCompl /\ [][NextCompl]_vars

(***************************************************************************)
(*                      PROPERTIES OF THE STEP PLAN                        *)
(***************************************************************************)
\* the order the system gives a fixed step: 0 for step number 1, else 9999
Sentinel(s) == IF Steps[s].number = FirstNumber THEN FirstOrder ELSE LastOrder

\* the elements of a sequence
Range(q) == {q[i] : i \in DOMAIN q}

\* C1: for every client that has an assignment, both fixed steps are assigned
\* and active, the first one's order is the minimum of the client's orders and
\* the last one's order is the maximum (checked where only the view, toggle,
\* reorder and bulkAssign run).
C1_PinnedInvariant ==
    \A c \in Clients :
        Assigned(c) # {} =>
            /\ \A f \in FixedFirst :
                  /\ f \in Assigned(c)
                  /\ Plan(c)[f].is_active
                  /\ \A s \in Assigned(c) : Plan(c)[f].order <= Plan(c)[s].order
            /\ \A l \in FixedLast :
                  /\ l \in Assigned(c)
                  /\ Plan(c)[l].is_active
                  /\ \A s \in Assigned(c) : Plan(c)[l].order >= Plan(c)[s].order

\* C7: a toggle aimed at a fixed step is refused and no ClientStep row is
\* created, deleted or changed by it.
C7_ToggleFixedRefused ==
    [][(resp'.op = "toggle" /\ Steps[resp'.step].is_fixed)
          => (resp'.result = "error_fixed" /\ clientSteps' = clientSteps)]_vars

\* C7 witness: a toggle of a fixed step that the client has assigned was refused.
C7_Witness ==
    /\ resp.op = "toggle"
    /\ Steps[resp.step].is_fixed
    /\ resp.result = "error_fixed"
    /\ resp.step \in Assigned(resp.client)
    /\ Plan(resp.client)[resp.step] = Row(Sentinel(resp.step), TRUE)

\* C8: no plan operation changes a fixed step's assignment: once it exists with
\* its sentinel order and active, every later request leaves it so, and an
\* update aimed at it is refused.
C8_PinnedImmutable ==
    [][\A c \in Clients : \A f \in FixedSteps :
          (f \in Assigned(c) /\ Plan(c)[f] = Row(Sentinel(f), TRUE))
             => /\ f \in DOMAIN clientSteps'[c]
                /\ clientSteps'[c][f] = Row(Sentinel(f), TRUE)
                /\ (resp'.op = "update" /\ resp'.client = c /\ resp'.step = f)
                      => resp'.result = "error_fixed"]_vars

\* C9: after bulkAssign with any of the four modes, from any prior plan, both
\* fixed steps are assigned with their sentinel orders.
C9_BulkEnsuresPinned ==
    [][(resp'.op = "bulk" /\ resp'.mode \in {"imp", "exp", "all", "none"})
          => \A f \in FixedSteps :
                /\ f \in DOMAIN clientSteps'[resp'.client]
                /\ clientSteps'[resp'.client][f].order = Sentinel(f)]_vars

\* C10: reorder gives every listed non-fixed assignment its 1-based position in
\* the list as order, leaves every other order (fixed steps listed or not) and
\* every active flag alone, creates and deletes no row, and answers ok for a
\* non-empty list whatever ids without an assignment it holds.
C10_Reorder ==
    [][resp'.op = "reorder" =>
          LET c   == resp'.client
              ids == resp'.ids
              p   == clientSteps[c]
              q   == clientSteps'[c]
          IN  /\ DOMAIN q = DOMAIN p
              /\ \A s \in DOMAIN p :
                    /\ q[s].is_active = p[s].is_active
                    /\ IF ~Steps[s].is_fixed /\ s \in Range(ids)
                       THEN q[s].order \in 1..Len(ids) /\ ids[q[s].order] = s
                       ELSE q[s].order = p[s].order
              /\ (ids # << >>) => resp'.result = "ok"
              /\ \A d \in Clients \ {c} : clientSteps'[d] = clientSteps[d]]_vars

\* C10 witness: a list naming an assigned fixed step, then an assigned optional
\* step whose order was different, was applied: the optional step took
\* position 2 and the fixed step kept its sentinel.
C10_Witness ==
    /\ resp.op = "reorder"
    /\ resp.result = "ok"
    /\ Len(resp.ids) = 2
    /\ resp.ids[1] \in Assigned(resp.client)
    /\ Steps[resp.ids[1]].is_fixed
    /\ Plan(resp.client)[resp.ids[1]].order = Sentinel(resp.ids[1])
    /\ resp.ids[2] \in OptionalRows(Plan(resp.client))
    /\ Plan(resp.client)[resp.ids[2]].order = 2
    /\ Steps[resp.ids[2]].number # 2

\* the non-fixed catalog steps a bulk mode applies to
ModeSteps(mode) ==
    {s \in StepIds : /\ ~Steps[s].is_fixed
                     /\ \/ mode = "imp" /\ Steps[s].imp
                        \/ mode = "exp" /\ Steps[s].exp
                        \/ mode = "all"}

\* the 1-based rank of step s in S by ascending catalog number
RankIn(S, s) == 1 + Cardinality({x \in S : Steps[x].number < Steps[s].number})

\* C11: after bulkAssign with one of the four modes the client's non-fixed
\* assignments are exactly the non-fixed catalog steps of the mode (none for
\* NONE), each active, with orders 1, 2, 3, ... by ascending catalog number.
C11_BulkAssignExact ==
    [][(resp'.op = "bulk" /\ resp'.mode \in {"imp", "exp", "all", "none"})
          => LET q == clientSteps'[resp'.client]
                 S == ModeSteps(resp'.mode)
             IN  /\ OptionalRows(q) = S
                 /\ \A s \in S : q[s] = Row(RankIn(S, s), TRUE)]_vars

\* C11 witness: bulkAssign with type all left the step with number 2 at order
\* 1 and the step with number 3 (a smaller primary key) at order 2.
C11_Witness ==
    /\ resp.op = "bulk"
    /\ resp.mode = "all"
    /\ \E s, u \in OptionalRows(Plan(resp.client)) :
           /\ Steps[s].number < Steps[u].number
           /\ s > u
           /\ Plan(resp.client)[s] = Row(1, TRUE)
           /\ Plan(resp.client)[u] = Row(2, TRUE)

\* C12: a toggle of a non-fixed step removes its assignment and answers
\* removed when it exists, else creates it with order = step.number, active,
\* and answers added; the step's presence flips at every toggle and no other
\* assignment changes.
C12_Toggle ==
    [][(resp'.op = "toggle" /\ ~Steps[resp'.step].is_fixed)
          => LET c == resp'.client
                 s == resp'.step
                 p == clientSteps[c]
                 q == clientSteps'[c]
             IN  /\ (s \in DOMAIN p)
                       => (resp'.result = "removed" /\ s \notin DOMAIN q)
                 /\ (s \notin DOMAIN p)
                       => /\ resp'.result = "added"
                          /\ s \in DOMAIN q
                          /\ q[s] = Row(Steps[s].number, TRUE)
                 /\ (DOMAIN q) \ {s} = (DOMAIN p) \ {s}
                 /\ \A u \in (DOMAIN p) \ {s} : q[u] = p[u]
                 /\ \A d \in Clients \ {c} : clientSteps'[d] = clientSteps[d]]_vars

\* C12 witness: a toggle added a step whose number differs from its primary
\* key, next to another optional assignment.
C12_Witness ==
    /\ resp.op = "toggle"
    /\ resp.result = "added"
    /\ resp.step \in Assigned(resp.client)
    /\ Steps[resp.step].number # resp.step
    /\ Plan(resp.client)[resp.step] = Row(Steps[resp.step].number, TRUE)
    /\ OptionalRows(Plan(resp.client)) # {resp.step}

\* C13: getPlan for a client without assignments creates exactly the two fixed
\* assignments, with orders 0 and 9999, both active; a getPlan that follows a
\* getPlan changes nothing.
C13_GetPlanProvisions ==
    [][resp'.op = "getPlan"
          => LET c == resp'.client
             IN  /\ Assigned(c) = {}
                    => /\ DOMAIN clientSteps'[c] = FixedFirst \cup FixedLast
                       /\ \A f \in FixedFirst : clientSteps'[c][f] = Row(FirstOrder, TRUE)
                       /\ \A l \in FixedLast : clientSteps'[c][l] = Row(LastOrder, TRUE)
                 /\ (resp.op = "getPlan" /\ resp.client = c)
                       => clientSteps' = clientSteps]_vars

\* C13 witness: the view has been opened and the client has exactly the two
\* fixed assignments
C13_Witness ==
    /\ resp.op = "getPlan"
    /\ Assigned(resp.client) = FixedFirst \cup FixedLast
    /\ Cardinality(Assigned(resp.client)) = 2
    /\ \A f \in FixedFirst : Plan(resp.client)[f] = Row(FirstOrder, TRUE)
    /\ \A l \in FixedLast : Plan(resp.client)[l] = Row(LastOrder, TRUE)

(***************************************************************************)
(*                 PROPERTIES OF TRACKINGS AND REVISIONS                   *)
(***************************************************************************)
\* the transition table of the specification: PENDING -> IN_PROGRESS,
\* IN_PROGRESS -> COMPLETED, any -> CANCELLED, COMPLETED -> PENDING,
\* COMPLETED -> IN_PROGRESS
Permitted(from, to) ==
    \/ from = "PENDING" /\ to = "IN_PROGRESS"
    \/ from = "IN_PROGRESS" /\ to = "COMPLETED"
    \/ to = "CANCELLED"
    \/ from = "COMPLETED" /\ to \in {"PENDING", "IN_PROGRESS"}

\* a transition some sentence of the specification allows: the table, or the
\* scenario that records COMPLETED on a PENDING tracking
PermittedSomewhere(from, to) ==
    Permitted(from, to) \/ (from = "PENDING" /\ to = "COMPLETED")

\* C2: a request (a revision's status override or an admin mark-as action) for
\* a status that differs from the tracking's and is outside the transition
\* table is rejected and leaves the tracking's status and finish_date as
\* they were.
C2_TransitionTable ==
    [][\A id \in DOMAIN trackings :
          (/\ resp'.op \in {"record", "mark"}
           /\ id \in resp'.targets
           /\ resp'.status # ""
           /\ resp'.status # trackings[id].status
           /\ ~Permitted(trackings[id].status, resp'.status))
          => /\ resp'.result = "error_transition"
             /\ trackings'[id] = trackings[id]]_vars

\* C4: a record call whose status override is not a permitted transition from
\* the tracking's status fails as a whole: no Revision is appended and the
\* tracking is unchanged (stated for the overrides that no sentence of the
\* specification permits).
C4_RecordAtomic ==
    [][\A id \in DOMAIN trackings :
          (/\ resp'.op = "record"
           /\ id \in resp'.targets
           /\ resp'.status # ""
           /\ resp'.status # trackings[id].status
           /\ ~PermittedSomewhere(trackings[id].status, resp'.status))
          => /\ revisions' = revisions
             /\ trackings' = trackings]_vars

\* C14: a status change (a revision's override or an admin mark) that sets
\* COMPLETED leaves finish_date set, and one that moves a COMPLETED tracking
\* to another status leaves finish_date empty.
C14_FinishDateFollowsStatus ==
    [][\A id \in DOMAIN trackings :
          (/\ resp'.op \in {"record", "mark"}
           /\ id \in resp'.targets
           /\ trackings'[id].status # trackings[id].status)
          => /\ trackings'[id].status = "COMPLETED"
                   => trackings'[id].finish_date # NoDate
             /\ trackings[id].status = "COMPLETED"
                   => trackings'[id].finish_date = NoDate]_vars

\* the Revision row appended last
LastRevision(revs) == revs[Len(revs)]

\* C15: a successful record appends exactly one Revision, with the tracking's
\* step; with an override that differs from the tracking's status the
\* Revision's and the tracking's status are the override afterwards; without
\* one, or with an equal one, the tracking is unchanged and the Revision
\* carries the tracking's status.
C15_RecordAppends ==
    [][(resp'.op = "record" /\ resp'.result = "ok")
          => \A tid \in resp'.targets :
                /\ Len(revisions') = Len(revisions) + 1
                /\ SubSeq(revisions', 1, Len(revisions)) = revisions
                /\ LastRevision(revisions').tracking = tid
                /\ LastRevision(revisions').step = trackings[tid].step
                /\ IF resp'.status # "" /\ resp'.status # trackings[tid].status
                   THEN /\ LastRevision(revisions').status = resp'.status
                        /\ trackings'[tid].status = resp'.status
                        /\ \A other \in (DOMAIN trackings) \ {tid} :
                               trackings'[other] = trackings[other]
                   ELSE /\ trackings' = trackings
                        /\ LastRevision(revisions').status = trackings[tid].status]_vars

\* C15 witness: a record with the override PENDING reopened a tracking that had
\* been completed (only a record writes PENDING on an existing tracking), and
\* the Revision carries the override and the tracking's step.
C15_Witness ==
    /\ resp.op = "record"
    /\ resp.result = "ok"
    /\ resp.status = "PENDING"
    /\ revisions # << >>
    /\ LastRevision(revisions).status = "PENDING"
    /\ \E tid \in resp.targets :
           /\ tid \in DOMAIN trackings
           /\ LastRevision(revisions).tracking = tid
           /\ LastRevision(revisions).step = trackings[tid].step
           /\ trackings[tid].status = "PENDING"
           /\ trackings[tid].finish_date # NoDate

\* C16: there is at most one tracking row per (shipment, step).
C16_OneRowPerStep ==
    \A i, j \in DOMAIN trackings :
        (trackings[i].shipment = trackings[j].shipment
            /\ trackings[i].step = trackings[j].step) => i = j

(***************************************************************************)
(*             PROPERTIES OF DOCUMENTS AND NOTIFICATIONS                   *)
(***************************************************************************)
\* the number of Notification rows of a type about document d
NotifCount(ns, type, d) ==
    CopiesIn(Notif(type, "NULL", d), ns) + CopiesIn(Notif(type, "clientdocument", d), ns)

\* C3: when Job A runs twice in succession, the second run creates no
\* DOCUMENT_EXPIRING notification, and every document that is expiring soon
\* has exactly one.
C3_OneExpiringNotification ==
    [][(resp.op = "jobA" /\ resp'.op = "jobA")
          => \A d \in DOMAIN documents :
                 /\ NotifCount(notifications', "DOCUMENT_EXPIRING", d)
                        = NotifCount(notifications, "DOCUMENT_EXPIRING", d)
                 /\ d \in ExpiringSoon(documents)
                        => NotifCount(notifications', "DOCUMENT_EXPIRING", d) = 1]_vars

\* C5: when the expiration sweep runs twice on the same day with no write in
\* between, the second run changes no document and reports 0 expired documents.
C5_SweepIdempotent ==
    [][(resp.op = "jobA" /\ resp'.op = "jobA")
          => /\ documents' = documents
             /\ resp'.count = 0]_vars

\* a second run in succession, after a first run that expired a document
C5_Witness ==
    /\ resp.op = "jobA"
    /\ resp.prev = "jobA"
    /\ resp.prevCount > 0
    /\ resp.count = 0
    /\ \E d \in DOMAIN documents : /\ documents[d].status = "VENCIDO"
                                   /\ documents[d].expiration_date < today

\* document d is the only APROBADO document of its client in its category,
\* and the category is required
OnlyApproved(docs, d) ==
    /\ docs[d].status = "APROBADO"
    /\ docs[d].category \in RequiredCategories
    /\ \A e \in DOMAIN docs :
           (/\ e # d
            /\ docs[e].client = docs[d].client
            /\ docs[e].category = docs[d].category)
           => docs[e].status # "APROBADO"

\* a review that approves a document of a required category that was not
\* APROBADO does not decrease the client's completeness
ApproveKeeps ==
    (/\ resp'.op = "review"
     /\ resp'.status = "APROBADO"
     /\ documents[resp'.doc].status # "APROBADO"
     /\ documents[resp'.doc].category \in RequiredCategories)
    => CompletenessOf(documents', resp'.client) >= CompletenessOf(documents, resp'.client)

\* a step that leaves document d RECHAZADO or VENCIDO when it was the only
\* APROBADO one of its category strictly decreases the client's completeness
LosingDecreases(d) ==
    (/\ documents'[d].status \in {"RECHAZADO", "VENCIDO"}
     /\ OnlyApproved(documents, d))
    => CompletenessOf(documents', documents[d].client)
           < CompletenessOf(documents, documents[d].client)

PastDue(row) == row.expiration_date # NoDate /\ row.expiration_date < today

\* C17: right after the sweep no document that is past due is PENDIENTE or
\* APROBADO (those became VENCIDO), and every other document keeps its status.
C17_SweepExpires ==
    [][resp'.op = "jobA"
          => \A d \in DOMAIN documents :
                /\ IF PastDue(documents[d])
                      /\ documents[d].status \in {"PENDIENTE", "APROBADO"}
                   THEN documents'[d].status = "VENCIDO"
                   ELSE documents'[d].status = documents[d].status
                /\ PastDue(documents'[d])
                      => documents'[d].status \notin {"PENDIENTE", "APROBADO"}]_vars

\* C17 witness: a sweep expired a document and kept an APROBADO document that
\* expires today.
C17_Witness ==
    /\ resp.op = "jobA"
    /\ resp.count >= 1
    /\ \E d, e \in DOMAIN documents :
           /\ documents[d].status = "VENCIDO"
           /\ PastDue(documents[d])
           /\ documents[e].status = "APROBADO"
           /\ documents[e].expiration_date = today

\* C18: no step writes a document as APROBADO with an expiration date before
\* the day of the write; a review that approves a past-due document stores
\* VENCIDO.
C18_NoOverdueApproved ==
    [][/\ \A d \in DOMAIN documents' :
             (d \notin DOMAIN documents \/ documents'[d] # documents[d])
                => ~(documents'[d].status = "APROBADO" /\ PastDue(documents'[d]))
       /\ (/\ resp'.op = "review"
           /\ resp'.status = "APROBADO"
           /\ PastDue(documents[resp'.doc]))
             => documents'[resp'.doc].status = "VENCIDO"]_vars

\* C18 witness: a review approved a document that is past due and the stored
\* status is VENCIDO.
C18_Witness ==
    /\ resp.op = "review"
    /\ resp.status = "APROBADO"
    /\ PastDue(documents[resp.doc])
    /\ documents[resp.doc].status = "VENCIDO"

\* C19, as stated: an upload without expiration date in a category that has
\* validity_months = m stores (document_date, else today) + 30 * m days, an
\* explicit expiration date is kept, a category without validity_months
\* leaves it empty, and the status is PENDIENTE.
C19_UploadDerivesExpiration ==
    [][resp'.op = "upload"
          => LET row  == documents'[resp'.doc]
                 m    == ValidityMonths(row.category)
                 base == IF resp'.document_date # NoDate
                         THEN resp'.document_date ELSE today
             IN  /\ row.status = "PENDIENTE"
                 /\ resp'.expiration_date # NoDate
                       => row.expiration_date = resp'.expiration_date
                 /\ (resp'.expiration_date = NoDate /\ m # NoValidity)
                       => row.expiration_date = base + 30 * m
                 /\ (resp'.expiration_date = NoDate /\ m = NoValidity)
                       => row.expiration_date = NoDate]_vars

\* C19, amended: the derivation applies for validity_months = m >= 1; a
\* category whose validity_months is empty or 0 leaves the expiration date
\* empty.
C19_UploadDerivesExpirationPositive ==
    [][resp'.op = "upload"
          => LET row  == documents'[resp'.doc]
                 m    == ValidityMonths(row.category)
                 base == IF resp'.document_date # NoDate
                         THEN resp'.document_date ELSE today
             IN  /\ row.status = "PENDIENTE"
                 /\ resp'.expiration_date # NoDate
                       => row.expiration_date = resp'.expiration_date
                 /\ (resp'.expiration_date = NoDate /\ m >= 1)
                       => row.expiration_date = base + 30 * m
                 /\ (resp'.expiration_date = NoDate /\ (m = NoValidity \/ m = 0))
                       => row.expiration_date = NoDate]_vars

\* C19 witness: on day 1 a document dated day 0 was uploaded without
\* expiration date in the category with one month of validity: it expires on
\* day 30.
C19_Witness ==
    /\ resp.op = "upload"
    /\ today = 1
    /\ resp.document_date = 0
    /\ resp.expiration_date = NoDate
    /\ documents[resp.doc].category = 1
    /\ documents[resp.doc].expiration_date = 30
    /\ documents[resp.doc].status = "PENDIENTE"

\* C20: a review of a document whose status is VENCIDO is refused and leaves
\* the document as it was.
C20_ReviewExpiredRefused ==
    [][(resp'.op = "review" /\ documents[resp'.doc].status = "VENCIDO")
          => /\ resp'.result = "error_terminal"
             /\ documents'[resp'.doc] = documents[resp'.doc]]_vars

\* C21: the completeness of a client is 100 * (required categories with an
\* approved document of the client) / (required categories), 100 when no
\* category is required, and the dossier page computes the same value as
\* Client.calcular_completitud_expediente
C21_CompletenessEverywhere ==
    \A c \in DocClients :
        LET n == Cardinality(RequiredCategories)
            k == Cardinality({cat \in RequiredCategories :
                    \E d \in DOMAIN documents :
                        /\ documents[d].client = c
                        /\ documents[d].category = cat
                        /\ documents[d].status = "APROBADO"})
        IN  /\ CompletenessOf(documents, c) =
                   (IF n = 0 THEN 100 ELSE (100 * k) \div n)
            /\ ExpedientePercent(documents, c) = CompletenessOf(documents, c)

(***************************************************************************)
(*                             MANIFESTS                                   *)
(***************************************************************************)
\* the manifest rows created at most
MaxManifests == 4

\* the manifest types a form may carry: two of MANIFEST_TYPES and one that
\* is not a choice
ManifestTypes == {"EFOS", "EDOS"}
ManifestInputs == ManifestTypes \cup {"INVALID"}

\* superseded_by of a manifest nothing replaces
NoManifest == 0

\* filter(client, manifest_type, is_active=True)
\*     .update(is_active=False, superseded_by=None)
Deactivate(ms, c, ty) ==
    [m \in DOMAIN ms |->
        IF ms[m].client = c /\ ms[m].manifest_type = ty /\ ms[m].is_active
        THEN [ms[m] EXCEPT !.is_active = FALSE, !.superseded_by = NoManifest]
        ELSE ms[m]]

\* a variant that leaves superseded_by of the earlier manifests empty
SupersedeNothing(ms, c, ty, new) == ms

\* filter(client, manifest_type, is_active=False, superseded_by__isnull=True)
\*     .exclude(pk=new).update(superseded_by=new)
Supersede(ms, c, ty, new) ==
    [m \in DOMAIN ms |->
        IF /\ ms[m].client = c
           /\ ms[m].manifest_type = ty
           /\ ~ms[m].is_active
           /\ ms[m].superseded_by = NoManifest
           /\ m # new
        THEN [ms[m] EXCEPT !.superseded_by = new]
        ELSE ms[m]]

\* client_manifest_create, POST: a form that is not valid writes nothing; a
\* valid one deactivates the active manifests of its client and type, saves
\* the new manifest (is_active defaults to True) and makes it the successor
\* of the inactive ones that have none
CreateManifest(c, ty) ==
    /\ Len(manifests) < MaxManifests
    /\ IF ty \notin ManifestTypes
       THEN /\ resp' = [NoResp EXCEPT !.op = "manifest", !.client = c,
                                      !.result = "invalid"]
            /\ UNCHANGED manifests
       ELSE LET new == Len(manifests) + 1
                saved == Append(Deactivate(manifests, c, ty),
                                [client |-> c, manifest_type |-> ty,
                                 is_active |-> TRUE,
                                 superseded_by |-> NoManifest])
            IN  /\ manifests' = Supersede(saved, c, ty, new)
                /\ resp' = [NoResp EXCEPT !.op = "manifest", !.client = c,
                                          !.doc = new, !.result = "ok"]
    /\ UNCHANGED <<clientSteps, trackings, revisions, documents, notifications,
                   today, nRequired, clients, verifications, queue, procs, cycle>>

InitManifest ==
    /\ InitOther
    /\ clientSteps = [c \in Clients |-> NoRows]
    /\ resp = NoResp

NextManifest == \E c \in ClientIds, ty \in ManifestInputs : CreateManifest(c, ty)

SpecManifest == InitManifest /\ [][NextManifest]_vars

\* the manifests of client c and type ty
ManifestsOf(c, ty) ==
    {m \in DOMAIN manifests :
        manifests[m].client = c /\ manifests[m].manifest_type = ty}

\* C30: after any sequence of manifest creations, every (client, type) pair
\* that has a manifest has exactly one active manifest, the one created last,
\* and every inactive manifest of the pair is superseded by a manifest
\* created after it
C30_OneActiveManifest ==
    \A c \in ClientIds, ty \in ManifestTypes :
        LET ms == ManifestsOf(c, ty)
        IN  ms # {} =>
              /\ {m \in ms : manifests[m].is_active}
                     = {CHOOSE m \in ms : \A o \in ms : o <= m}
              /\ \A m \in ms :
                     ~manifests[m].is_active =>
                         /\ manifests[m].superseded_by \in ms
                         /\ manifests[m].superseded_by > m

\* three manifests of one pair and one of another: the first two superseded
C30_Witness ==
    /\ resp.op = "manifest" /\ resp.result = "ok"
    /\ \E c \in ClientIds, ty \in ManifestTypes :
           /\ Cardinality(ManifestsOf(c, ty)) >= 3
           /\ \E o \in DOMAIN manifests : o \notin ManifestsOf(c, ty)

(***************************************************************************)
(*                        PROGRESS OF A SHIPMENT                           *)
(***************************************************************************)
\* the Shipment rows: client and type
ShipmentRows == [sh \in Shipments |-> [client |-> 1, type |-> "IMP"]]

\* steps_list: the steps of the client's active assignments when there is
\* one, else the steps of the catalog for the type of the shipment
StepsList(sh) ==
    LET c == ShipmentRows[sh].client
        active == {s \in Assigned(c) : Plan(c)[s].is_active}
    IN  IF active # {} THEN active
        ELSE IF ShipmentRows[sh].type = "IMP"
        THEN {s \in StepIds : Steps[s].imp}
        ELSE {s \in StepIds : Steps[s].exp}

\* the trackings of a shipment for step number n
TrackingsOf(sh, n) ==
    {id \in DOMAIN trackings :
        trackings[id].shipment = sh /\ trackings[id].step = n}

\* trackings_dict = {t.step: t for t in trackings_qs}: one tracking per step
\* number; order_by('step') leaves open which of several rows of a step comes
\* last, so every choice is a possible dictionary
TrackingsDicts(sh) ==
    LET numbers == {trackings[id].step :
                       id \in {x \in DOMAIN trackings : trackings[x].shipment = sh}}
    IN  {dict \in [numbers -> DOMAIN trackings] :
            \A n \in numbers : dict[n] \in TrackingsOf(sh, n)}

\* the steps of the list whose tracking in the dictionary is COMPLETED
CompletedSteps(steps_list, dict) ==
    {s \in steps_list :
        /\ Steps[s].number \in DOMAIN dict
        /\ trackings[dict[Steps[s].number]].status = "COMPLETED"}

\* a variant that divides by the number of trackings of the dictionary
ProgressOverTrackings(steps_list, dict) ==
    IF Cardinality(DOMAIN dict) > 0
    THEN PercentInt(Cardinality(CompletedSteps(steps_list, dict)),
                    Cardinality(DOMAIN dict))
    ELSE 0

\* progress_percent =
\*     int((completed_steps / total_steps) * 100) if total_steps > 0 else 0
ProgressPercent(steps_list, dict) ==
    IF Cardinality(steps_list) > 0
    THEN PercentInt(Cardinality(CompletedSteps(steps_list, dict)),
                    Cardinality(steps_list))
    ELSE 0

\* ShipmentDetailView.get_context_data: the timeline and the progress of
\* shipment sh (resp.doc holds the shipment, resp.targets the trackings of
\* the dictionary)
ShipmentDetail(sh) ==
    /\ \E dict \in TrackingsDicts(sh) :
           resp' = [NoResp EXCEPT !.op = "progress", !.doc = sh,
                        !.targets = {dict[n] : n \in DOMAIN dict},
                        !.count = ProgressPercent(StepsList(sh), dict),
                        !.result = "ok"]
    /\ UNCHANGED <<trackings, revisions, today>>
    /\ UNCHANGED PlanTables

\* the shipments of the dashboard's timeline: those with a PENDING or
\* IN_PROGRESS tracking
PendingShipments(c) ==
    {sh \in Shipments :
        /\ ShipmentRows[sh].client = c
        /\ \E id \in DOMAIN trackings :
               /\ trackings[id].shipment = sh
               /\ trackings[id].status \in {"PENDING", "IN_PROGRESS"}}

\* client_dashboard_view: the progress of a pending shipment of the client
ClientDashboard(c) ==
    /\ IF PendingShipments(c) = {}
       THEN resp' = [NoResp EXCEPT !.op = "dashboard", !.client = c,
                                   !.result = "none"]
       ELSE \E sh \in PendingShipments(c) : \E dict \in TrackingsDicts(sh) :
               resp' = [NoResp EXCEPT !.op = "dashboard", !.client = c,
                            !.doc = sh,
                            !.targets = {dict[n] : n \in DOMAIN dict},
                            !.count = ProgressPercent(StepsList(sh), dict),
                            !.result = "ok"]
    /\ UNCHANGED <<trackings, revisions, today>>
    /\ UNCHANGED PlanTables

\* the plan screen, the tracking form, the admin actions and the two pages
\* that show the progress
NextProgress ==
    \/ \E c \in Clients : GetPlan(c)
    \/ \E c \in Clients, s \in StepIds : Toggle(c, s)
    \/ \E sh \in Shipments, st \in TrackSteps, status \in TrackStatuses :
           CreateTracking(sh, st, status)
    \/ \E S \in SUBSET (DOMAIN trackings), status \in MarkStatuses : AdminMark(S, status)
    \/ \E sh \in Shipments : ShipmentDetail(sh)
    \/ \E c \in Clients : ClientDashboard(c)

SpecProgress == InitTrack /\ [][NextProgress]_vars

\* the expected steps of the shipment of a response that the trackings it
\* used show COMPLETED
CompletedCount(r) ==
    Cardinality({s \in StepsList(r.doc) :
        \E id \in r.targets : /\ trackings[id].step = Steps[s].number
                              /\ trackings[id].status = "COMPLETED"})

\* round(100 * k / t), halves up
Rounded(k, t) == (200 * k + t) \div (2 * t)

RfcInputs == {"", "VALID", "MALFORMED"}

\* ClientUpdateView with ClientForm: show and rfc are fields of the form
EditClient(c, show, rfc) ==
    /\ clients' = [clients EXCEPT ![c] = [@ EXCEPT !.show = show, !.rfc = rfc]]
    /\ resp' = [NoResp EXCEPT !.op = "editClient", !.client = c, !.result = "ok"]
    /\ UNCHANGED <<clientSteps, trackings, revisions, documents, notifications,
                   today, nRequired, verifications, manifests, queue, procs,
                   cycle>>

\* a variant that counts the required categories in which the client has a
\* document of any status
RequiredWithDocument(docs, c) ==
    {docs[d].category : d \in {x \in DOMAIN docs : docs[x].client = c}}
        \cap RequiredCategories

\* ClientDocument.objects.filter(client, category__is_required=True,
\*     status='APROBADO').values('category').distinct()
ApprovedRequired(docs, c) ==
    {docs[d].category :
        d \in {x \in DOMAIN docs : /\ docs[x].client = c
                                   /\ docs[x].category \in RequiredCategories
                                   /\ docs[x].status = "APROBADO"}}

\* is_complete = approved_required >= required_count
IsComplete(docs, c) ==
    Cardinality(ApprovedRequired(docs, c)) >= Cardinality(RequiredCategories)

\* the clients Client.objects.filter(show=True) selects
VisibleClients == {c \in ClientIds : clients[c].show}

\* the client table after the loop of the job has handled the clients of done
Reconciled(done) ==
    [c \in ClientIds |->
        IF c \in done /\ clients[c].expediente_completo # IsComplete(documents, c)
        THEN [clients[c] EXCEPT !.expediente_completo = IsComplete(documents, c)]
        ELSE clients[c]]

\* update_expediente_completeness: the flag of every visible client is set
\* to is_complete, each save committed on its own. The clients come in no
\* stated order, and an exception (a database error) ends the run with
\* self.retry after the clients of done: the run completes when done is all
\* visible clients
JobBWrites(done) ==
    /\ done \subseteq VisibleClients
    /\ clients' = Reconciled(done)
    /\ resp' = [NoResp EXCEPT !.op = "jobB", !.targets = done,
                   !.count = Cardinality({c \in done :
                                 clients[c].expediente_completo
                                     # IsComplete(documents, c)}),
                   !.result = IF done = VisibleClients THEN "ok" ELSE "retry"]

\* a run of the task by itself
JobB(done) ==
    /\ JobBWrites(done)
    /\ UNCHANGED <<clientSteps, trackings, revisions, documents, notifications,
                   today, nRequired, verifications, manifests, queue, procs,
                   cycle>>

\* the numbers of required categories of the reconciliation runs
JobBRequired == {0, 2}

InitJobB ==
    /\ InitLater
    /\ clientSteps = [c \in Clients |-> NoRows]
    /\ trackings = << >>
    /\ revisions = << >>
    /\ documents = << >>
    /\ notifications = EmptyBag
    /\ today = 0
    /\ nRequired \in JobBRequired
    /\ resp = NoResp

\* uploads without dates, reviews, client edits and the reconciliation
NextJobB ==
    \/ \E c \in DocClients, cat \in Categories : Upload(c, cat, NoDate, NoDate)
    \/ \E d \in DocIds, status \in DocStatuses : Review(d, status)
    \/ \E c \in ClientIds, show \in BOOLEAN : EditClient(c, show, clients[c].rfc)
    \/ \E done \in SUBSET ClientIds : JobB(done)

SpecJobB == InitJobB /\ [][NextJobB]_vars

\* every required category has an approved document of client c
AllRequiredApproved(c) ==
    \A cat \in RequiredCategories :
        \E d \in DOMAIN documents :
            /\ documents[d].client = c
            /\ documents[d].category = cat
            /\ documents[d].status = "APROBADO"

\* C22: after a run of the reconciliation that completes, the flag of every
\* visible client is true exactly when every required category has an
\* approved document of the client, that is when its completeness is 100
C22_FlagReconciled ==
    [][(resp'.op = "jobB" /\ resp'.result = "ok")
          => \A c \in ClientIds :
                 clients'[c].show =>
                     /\ clients'[c].expediente_completo = AllRequiredApproved(c)'
                     /\ clients'[c].expediente_completo
                            = (CompletenessOf(documents', c) = 100)]_vars

\* a completed run that set the flag of a client with both required
\* categories approved and left the flag of a client without documents false
C22_Witness ==
    /\ resp.op = "jobB" /\ resp.result = "ok" /\ resp.count >= 1
    /\ nRequired = 2
    /\ \E c \in ClientIds : clients[c].show /\ clients[c].expediente_completo
    /\ \E c \in ClientIds : clients[c].show /\ ~clients[c].expediente_completo

(***************************************************************************)
(*        JOB A WITH A FAILURE (clients.tasks.check_document_expiration)   *)
(***************************************************************************)
\* the loop a run of check_document_expiration is in when an exception is
\* raised: the sweep's update, the loop over expiring_soon, the loop over
\* expired_docs_list
JobAPhases == {"sweep", "expiring", "expired"}

\* check_document_expiration when an exception is raised (a database error
\* in get_or_create for document bad, or in the sweep's update): the whole
\* body is one try block whose handler logs and raises self.retry. What was
\* written before stays (each statement commits on its own): the sweep, and
\* the notifications of the documents of done, those the loop reached before
\* bad (the loops' order, category__order and -created_at, is not modelled)
JobAFailsWrites(phase, bad, done) ==
    LET swept == Sweep(documents)
        soon == ExpiringSoon(swept)
        expired == ExpiredList(swept)
    IN  /\ phase = "sweep" =>
              /\ bad = 0 /\ done = {}
              /\ UNCHANGED <<documents, notifications>>
        /\ phase = "expiring" =>
              /\ bad \in soon /\ done \subseteq soon \ {bad}
              /\ documents' = swept
              /\ notifications' = NotifyAll(notifications, "DOCUMENT_EXPIRING", done)
        /\ phase = "expired" =>
              /\ bad \in expired /\ done \subseteq expired \ {bad}
              /\ documents' = swept
              /\ notifications' =
                     NotifyAll(NotifyAll(notifications, "DOCUMENT_EXPIRING", soon),
                               "DOCUMENT_EXPIRED", done)
        /\ BagCardinality(notifications') <= MaxNotifications
        /\ resp' = [NoResp EXCEPT !.op = "jobA", !.doc = bad, !.targets = done,
                                  !.mode = phase, !.result = "retry"]

\* a failing run of the task by itself
JobAFails(phase, bad, done) ==
    /\ JobAFailsWrites(phase, bad, done)
    /\ UNCHANGED <<today, nRequired>>
    /\ UNCHANGED TrackTables

\* uploads in category 0 with no date or day 0, reviews, the clock and the
\* runs of the job
NextJobAFail ==
    \/ Tick
    \/ \E c \in DocClients, ed \in {NoDate, 0} : Upload(c, 0, NoDate, ed)
    \/ \E d \in DocIds, status \in DocStatuses : Review(d, status)
    \/ JobA
    \/ \E phase \in JobAPhases, bad \in DocIds \cup {0}, done \in SUBSET DocIds :
           JobAFails(phase, bad, done)

SpecJobAFail == InitDocs /\ [][NextJobAFail]_vars

\* the notification rows of type and document d, whatever their content_type
NotifiedFor(ns, type, d) ==
    \E n \in BagToSet(ns) : n.notification_type = type /\ n.object_id = d

\* C23: a run of Job A in which handling one document fails returns its
\* counts (it does not raise or restart), and every other document it has to
\* notify has its notification after the run
C23_FailureIsolated ==
    [][(resp'.op = "jobA" /\ resp'.doc # 0)
          => /\ resp'.result = "ok"
             /\ \A d \in ExpiringSoon(documents') \ {resp'.doc} :
                    NotifiedFor(notifications', "DOCUMENT_EXPIRING", d)
             /\ \A d \in ExpiredList(documents') \ {resp'.doc} :
                    NotifiedFor(notifications', "DOCUMENT_EXPIRED", d)]_vars

(***************************************************************************)
(*            JOB C (clients.tasks.verify_clients_sat_status)              *)
(***************************************************************************)
\* most SATVerification rows created
MaxVerifications == 2

\* max_retries of the tasks
MaxRetries == 3

\* what the lookup of one client comes to: a result of verify_rfc with its
\* status, or an exception raised inside the per-client try block (by
\* cache.get, which verify_rfc calls outside its own try, or by create)
Outcomes == {"LIMPIO", "PRESUNTO", "DEFINITIVO", "ERROR", "raise"}

\* verify_rfc answers a malformed RFC with _error_response before it looks
\* anything up
OutcomesOf(rfc) ==
    IF rfc = "VALID" THEN Outcomes
    ELSE IF rfc = "MALFORMED" THEN {"ERROR", "raise"}
    ELSE {"none"}

\* Client.objects.filter(show=True).exclude(rfc__isnull=True).exclude(rfc='')
WithRfc == {c \in ClientIds : clients[c].show /\ clients[c].rfc # ""}

\* the rows the loop creates for the clients of D (taken by primary key):
\* SATVerification.objects.create(client, status=result['status'],
\* verification_method='AUTOMATIC') when the lookup returned, nothing when
\* an exception was raised
RECURSIVE VerifyAll(_, _, _)
VerifyAll(vs, outcome, D) ==
    IF D = {} THEN vs
    ELSE LET c == CHOOSE x \in D : \A y \in D : x <= y
             written == IF outcome[c] = "raise" THEN vs
                        ELSE Append(vs, [client |-> c, status |-> outcome[c],
                                         verification_method |-> "AUTOMATIC"])
         IN  VerifyAll(written, outcome, D \ {c})

\* the message of a run that the beat schedule starts
BeatRun(task) == [task |-> task, retries |-> 0]

\* self.retry: the task is queued again unless max_retries is used up
Retry(msg) ==
    IF msg.retries < MaxRetries
    THEN {[task |-> msg.task, retries |-> msg.retries + 1]}
    ELSE {}

\* verify_clients_sat_status, started by the beat schedule or by a retry
\* message: every client with an RFC is looked up and its row created; an
\* exception of one client is counted in results['errors'] and no row is
\* written for it. stop = 0 is a run that returns its results; otherwise an
\* exception reaches the outer handler when the loop is at client stop (the
\* clients query failing at the first client, or an exception leaving the
\* per-client handler), the rows written so far stay and self.retry queues
\* the task again
JobC(msg, outcome, stop) ==
    LET done == IF stop = 0 THEN WithRfc ELSE {c \in WithRfc : c < stop}
        written == VerifyAll(verifications, outcome, done)
    IN  /\ msg.task = "jobC"
        /\ msg \in queue \/ msg = BeatRun("jobC")
        /\ \A c \in ClientIds :
               outcome[c] \in (IF c \in WithRfc THEN OutcomesOf(clients[c].rfc)
                               ELSE {"none"})
        /\ stop # 0 => stop \in WithRfc
        /\ Len(written) <= MaxVerifications
        /\ verifications' = written
        /\ queue' = (queue \ {msg}) \cup (IF stop = 0 THEN {} ELSE Retry(msg))
        /\ resp' = [NoResp EXCEPT !.op = "jobC",
                       !.mode = IF msg.retries = 0 THEN "beat" ELSE "retry",
                       !.targets = {c \in done : outcome[c] # "raise"},
                       !.count = Cardinality({c \in done : outcome[c] = "raise"}),
                       !.prevCount = Cardinality(done),
                       !.result = IF stop = 0 THEN "ok" ELSE "retry"]
        /\ UNCHANGED <<clientSteps, trackings, revisions, documents, notifications,
                       today, nRequired, clients, manifests, procs, cycle>>

\* edits of the second client, and the runs of the job
NextJobC ==
    \/ \E show \in BOOLEAN, rfc \in RfcInputs : EditClient(2, show, rfc)
    \/ \E msg \in queue \cup {BeatRun("jobC")}, outcome \in [ClientIds -> Outcomes \cup {"none"}],
          stop \in ClientIds \cup {0} : JobC(msg, outcome, stop)

SpecJobC == InitManifest /\ [][NextJobC]_vars

\* the rows of verifications' that the step appended
NewRows ==
    {i \in DOMAIN verifications' : i > Len(verifications)}

\* C24: a run of Job C writes exactly one new row for every visible client
\* with an RFC, whatever its lookup came to (a raised failure is recorded
\* as an ERROR row), and a failure of one client does not keep the rows of
\* the others from being written
C24_RowPerClient ==
    [][(resp'.op = "jobC" /\ resp'.result = "ok")
          => \A c \in WithRfc :
                 Cardinality({i \in NewRows : verifications'[i].client = c}) = 1]_vars

\* C28: the retry of a run of Job C that failed part-way writes no second
\* row for a client that the failed attempt had written a row for
C28_RetryNoDuplicate ==
    [][(/\ resp.op = "jobC" /\ resp.result = "retry"
        /\ resp'.op = "jobC" /\ resp'.mode = "retry")
          => resp.targets \cap resp'.targets = {}]_vars

(***************************************************************************)
(*        THE DAILY CYCLE (seguimiento.celery: app.conf.beat_schedule)     *)
(***************************************************************************)
\* the time of day in steps of five minutes from 6:00: crontab(hour=6,
\* minute=0) and crontab(hour=6, minute=30)
BeatSlotA == 0
BeatSlotB == 6

\* countdown=60 * 5 of self.retry, in steps of five minutes
RetrySlots == 1

\* the last step of the day
LastSlot == 7

\* a message of the broker: the task, its retries so far, and the time from
\* which a worker may run it
Message(task, retries, eta) == [task |-> task, retries |-> retries, eta |-> eta]

\* self.retry(countdown=60 * 5) unless max_retries is used up
RetryLater(msg) ==
    IF msg.retries < MaxRetries
    THEN {Message(msg.task, msg.retries + 1, cycle.clock + RetrySlots)}
    ELSE {}

\* the tasks of the beat schedule that are due and not sent yet
DueToSend ==
    {task \in {"jobA", "jobB"} \ cycle.sent :
        cycle.clock >=
            (IF task = "jobA" THEN BeatSlotA ELSE BeatSlotB)}

\* celery beat sends a task when its crontab entry is due; nothing links
\* the entry of one task to the run of another
Beat(task) ==
    /\ task \in DueToSend
    /\ queue' = queue \cup {Message(task, 0, cycle.clock)}
    /\ cycle' = [cycle EXCEPT !.sent = @ \cup {task}]
    /\ resp' = [NoResp EXCEPT !.op = "beat", !.mode = task]
    /\ UNCHANGED <<clientSteps, trackings, revisions, documents, notifications,
                   today, nRequired, clients, verifications, manifests, procs>>

\* the messages a worker may run now
Runnable(task) ==
    {msg \in queue : msg.task = task /\ msg.eta <= cycle.clock}

\* a worker runs check_document_expiration; phase "ok" is a run that
\* returns, the other phases are runs that raise and are queued again
RunJobA(msg, phase, bad, done) ==
    /\ msg \in Runnable("jobA")
    /\ IF phase = "ok"
       THEN /\ bad = 0 /\ done = {}
            /\ JobAWrites
            /\ queue' = queue \ {msg}
            /\ cycle' = [cycle EXCEPT !.done = @ \cup {"jobA"}]
       ELSE /\ JobAFailsWrites(phase, bad, done)
            /\ queue' = (queue \ {msg}) \cup RetryLater(msg)
            /\ UNCHANGED cycle
    /\ UNCHANGED <<clientSteps, trackings, revisions, today, nRequired, clients,
                   verifications, manifests, procs>>

\* a worker runs update_expediente_completeness
RunJobB(msg, done) ==
    /\ msg \in Runnable("jobB")
    /\ JobBWrites(done)
    /\ IF done = VisibleClients
       THEN /\ queue' = queue \ {msg}
            /\ cycle' = [cycle EXCEPT !.done = @ \cup {"jobB"}]
       ELSE /\ queue' = (queue \ {msg}) \cup RetryLater(msg)
            /\ UNCHANGED cycle
    /\ UNCHANGED <<clientSteps, trackings, revisions, documents, notifications,
                   today, nRequired, verifications, manifests, procs>>

\* five minutes pass; the beat and the worker are never late: nothing is
\* due to be sent, no message waits to be run
Tock ==
    /\ cycle.clock < LastSlot
    /\ DueToSend = {}
    /\ Runnable("jobA") \cup Runnable("jobB") = {}
    /\ cycle' = [cycle EXCEPT !.clock = @ + 1]
    /\ resp' = [NoResp EXCEPT !.op = "tock"]
    /\ UNCHANGED <<clientSteps, trackings, revisions, documents, notifications,
                   today, nRequired, clients, verifications, manifests, queue,
                   procs>>

\* the day ends and the next one begins
Midnight ==
    /\ cycle.clock = LastSlot
    /\ today < MaxDay
    /\ today' = today + 1
    /\ cycle' = NewCycle
    /\ resp' = [NoResp EXCEPT !.op = "tick"]
    /\ UNCHANGED <<clientSteps, trackings, revisions, documents, notifications,
                   nRequired, clients, verifications, manifests, queue, procs>>

\* the office hours: uploads and approvals happen before the jobs of the day
OfficeHours == cycle.clock = 0 /\ cycle.sent = {}

NextCycle ==
    \/ /\ OfficeHours
       /\ \E c \in DocClients, cat \in RequiredCategories, ed \in {NoDate, 0} :
              Upload(c, cat, NoDate, ed)
    \/ /\ OfficeHours
       /\ \E d \in DocIds : Review(d, "APROBADO")
    \/ \E task \in {"jobA", "jobB"} : Beat(task)
    \/ \E msg \in queue, phase \in JobAPhases \cup {"ok"}, bad \in DocIds \cup {0},
          done \in SUBSET DocIds : RunJobA(msg, phase, bad, done)
    \/ \E msg \in queue, done \in SUBSET ClientIds : RunJobB(msg, done)
    \/ Tock
    \/ Midnight

SpecCycle == InitDocs /\ [][NextCycle]_vars

\* client c has, in every required category, an approved document that is
\* not past due
ApprovedInDate(c) ==
    \A cat \in RequiredCategories :
        \E d \in DOMAIN documents :
            /\ documents[d].client = c
            /\ documents[d].category = cat
            /\ documents[d].status = "APROBADO"
            /\ ~(documents[d].expiration_date # NoDate
                   /\ documents[d].expiration_date < today)

\* C26: in every daily cycle Job B starts only after Job A of that cycle has
\* finished, also when Job A is retried, and so a run of Job B leaves no
\* visible client marked complete on the strength of a document whose
\* expiration date lies before the day
C26_SweepBeforeReconcile ==
    [][resp'.op = "jobB"
          => /\ "jobA" \in cycle.done
             /\ resp'.result = "ok" =>
                    \A c \in ClientIds :
                        (clients'[c].show /\ clients'[c].expediente_completo)
                            => ApprovedInDate(c)']_vars

(***************************************************************************)
(*     TWO RUNS OF JOB A AT THE SAME TIME (check_document_expiration)      *)
(***************************************************************************)
\* what every step of a run leaves alone
JobAFrame == <<clientSteps, trackings, revisions, today, nRequired, clients,
               verifications, manifests, queue, cycle>>

\* process p starts check_document_expiration: the sweep's update, then the
\* loop over expiring_soon is entered
PairStart(p) ==
    /\ procs[p].pc = "idle"
    /\ documents' = Sweep(documents)
    /\ procs' = [procs EXCEPT ![p] = [pc |-> "get", mode |-> "DOCUMENT_EXPIRING",
                                      todo |-> ExpiringSoon(documents'),
                                      cur |-> 0]]
    /\ resp' = [NoResp EXCEPT !.op = "jobA", !.client = p, !.result = "running"]
    /\ UNCHANGED notifications
    /\ UNCHANGED JobAFrame

\* get_or_create, first half: the SELECT for the next document of the loop;
\* a row that matches ends the call, none sends it on to the INSERT
PairGet(p) ==
    /\ procs[p].pc = "get"
    /\ procs[p].todo # {}
    /\ LET d == CHOOSE x \in procs[p].todo : \A y \in procs[p].todo : x <= y
       IN  procs' = [procs EXCEPT ![p] =
               IF Matching(notifications, procs[p].mode, d) >= 1
               THEN [@ EXCEPT !.todo = @ \ {d}]
               ELSE [@ EXCEPT !.pc = "create", !.cur = d]]
    /\ resp' = [NoResp EXCEPT !.op = "jobA", !.client = p, !.result = "running"]
    /\ UNCHANGED <<documents, notifications>>
    /\ UNCHANGED JobAFrame

\* get_or_create, second half: the INSERT; the table has no unique
\* constraint that could refuse it
PairCreate(p) ==
    /\ procs[p].pc = "create"
    /\ BagCardinality(notifications) < MaxNotifications
    /\ notifications' =
           notifications (+) SetToBag({Notif(procs[p].mode, "NULL", procs[p].cur)})
    /\ procs' = [procs EXCEPT ![p] = [@ EXCEPT !.pc = "get",
                                               !.todo = @ \ {procs[p].cur},
                                               !.cur = 0]]
    /\ resp' = [NoResp EXCEPT !.op = "jobA", !.client = p, !.doc = procs[p].cur,
                              !.result = "running"]
    /\ UNCHANGED documents
    /\ UNCHANGED JobAFrame

\* the first loop is through: the loop over expired_docs_list is entered
PairNextLoop(p) ==
    /\ procs[p].pc = "get"
    /\ procs[p].todo = {}
    /\ procs[p].mode = "DOCUMENT_EXPIRING"
    /\ procs' = [procs EXCEPT ![p] = [@ EXCEPT !.mode = "DOCUMENT_EXPIRED",
                                               !.todo = ExpiredList(documents)]]
    /\ resp' = [NoResp EXCEPT !.op = "jobA", !.client = p, !.result = "running"]
    /\ UNCHANGED <<documents, notifications>>
    /\ UNCHANGED JobAFrame

\* the second loop is through: the task returns its counts
PairReturn(p) ==
    /\ procs[p].pc = "get"
    /\ procs[p].todo = {}
    /\ procs[p].mode = "DOCUMENT_EXPIRED"
    /\ procs' = [procs EXCEPT ![p] = IdleProc]
    /\ resp' = [NoResp EXCEPT !.op = "jobA", !.client = p, !.result = "ok"]
    /\ UNCHANGED <<documents, notifications>>
    /\ UNCHANGED JobAFrame

\* uploads with expiration day 0, approvals, the clock and the steps of the
\* two runs
NextJobAPair ==
    \/ Tick
    \/ \E c \in DocClients : Upload(c, 0, NoDate, 0)
    \/ \E d \in DocIds : Review(d, "APROBADO")
    \/ \E p \in Procs : \/ PairStart(p)
                        \/ PairGet(p)
                        \/ PairCreate(p)
                        \/ PairNextLoop(p)
                        \/ PairReturn(p)

SpecJobAPair == InitDocs /\ [][NextJobAPair]_vars

\* C25: however two runs of Job A interleave, there is at every moment at
\* most one notification of a type about a document
C25_OneNotificationPerKey ==
    \A type \in {"DOCUMENT_EXPIRING", "DOCUMENT_EXPIRED"}, d \in DocIds :
        NotifCount(notifications, type, d) <= 1

(***************************************************************************)
(*       TWO bulk_assign_steps REQUESTS AT THE SAME TIME (one client)      *)
(***************************************************************************)
\* what every step of a request leaves alone
BulkFrame == <<trackings, revisions, documents, notifications, today, nRequired,
               clients, verifications, manifests, queue, cycle>>

\* the types of the two requests: those that write
PairModes == {"imp", "exp", "all", "none"}

\* request p arrives with its type; no statement has run yet
PairBulkStart(p, mode) ==
    /\ procs[p].pc = "idle"
    /\ procs' = [procs EXCEPT ![p] = [pc |-> "delete", mode |-> mode,
                                      todo |-> {}, cur |-> 0]]
    /\ resp' = [NoResp EXCEPT !.op = "bulk", !.client = p, !.mode = mode,
                              !.result = "running"]
    /\ UNCHANGED clientSteps
    /\ UNCHANGED BulkFrame

\* ClientStep.objects.filter(client, step__is_fixed=False).delete(), a
\* statement committed on its own; type 'none' then redirects, the other
\* types go on to the creation loop with order = 1
PairBulkDelete(p, c) ==
    /\ procs[p].pc = "delete"
    /\ clientSteps' = [clientSteps EXCEPT ![c] = DeleteRows(@, OptionalRows(@))]
    /\ procs' = [procs EXCEPT ![p] =
           IF procs[p].mode = "none"
           THEN [@ EXCEPT !.pc = "done"]
           ELSE [@ EXCEPT !.pc = "create", !.todo = BulkSteps(procs[p].mode),
                          !.cur = BulkStart]]
    /\ resp' = [NoResp EXCEPT !.op = "bulk", !.client = p, !.mode = procs[p].mode,
                   !.result = IF procs[p].mode = "none" THEN "redirect"
                              ELSE "running"]
    /\ UNCHANGED BulkFrame

\* one turn of the creation loop: ClientStep.objects.create for the next
\* step by number; a row of that (client, step) that is there already breaks
\* unique_together and the IntegrityError ends the request
PairBulkCreate(p, c) ==
    /\ procs[p].pc = "create"
    /\ procs[p].todo # {}
    /\ LET s == CHOOSE x \in procs[p].todo :
                    \A y \in procs[p].todo : Steps[x].number <= Steps[y].number
       IN  IF s \in Assigned(c)
           THEN /\ UNCHANGED clientSteps
                /\ procs' = [procs EXCEPT ![p] = [@ EXCEPT !.pc = "failed"]]
                /\ resp' = [NoResp EXCEPT !.op = "bulk", !.client = p,
                               !.mode = procs[p].mode, !.step = s,
                               !.result = "error_integrity"]
           ELSE /\ clientSteps' = [clientSteps EXCEPT
                                     ![c] = CreateRow(@, s, procs[p].cur, TRUE)]
                /\ procs' = [procs EXCEPT ![p] = [@ EXCEPT !.todo = @ \ {s},
                                                           !.cur = @ + 1]]
                /\ resp' = [NoResp EXCEPT !.op = "bulk", !.client = p,
                               !.mode = procs[p].mode, !.step = s,
                               !.result = "running"]
    /\ UNCHANGED BulkFrame

\* the loop over fixed_steps (get_or_create each), then the redirect
PairBulkFixed(p, c) ==
    /\ procs[p].pc = "create"
    /\ procs[p].todo = {}
    /\ clientSteps' = [clientSteps EXCEPT ![c] = EnsureFixedBulk(@, FixedSteps)]
    /\ procs' = [procs EXCEPT ![p] = [@ EXCEPT !.pc = "done"]]
    /\ resp' = [NoResp EXCEPT !.op = "bulk", !.client = p, !.mode = procs[p].mode,
                              !.result = "redirect"]
    /\ UNCHANGED BulkFrame

\* the plan screen before the requests, and the steps of the two requests
NextBulkPair ==
    \/ /\ \A p \in Procs : procs[p].pc = "idle"
       /\ \E c \in Clients : GetPlan(c)
    \/ /\ \A p \in Procs : procs[p].pc = "idle"
       /\ \E c \in Clients, s \in StepIds : Toggle(c, s)
    \/ \E p \in Procs, mode \in PairModes : PairBulkStart(p, mode)
    \/ \E p \in Procs, c \in Clients : PairBulkDelete(p, c)
    \/ \E p \in Procs, c \in Clients : PairBulkCreate(p, c)
    \/ \E p \in Procs, c \in Clients : PairBulkFixed(p, c)

SpecBulkPair == InitPlan /\ [][NextBulkPair]_vars

\* C29: when both requests for a client are over, its plan is the plan that
\* one of them leaves when it runs alone after the other: not a mixture of
\* the two assignments, not a plan created in part
C29_LastWriterWins ==
    (\A p \in Procs : procs[p].pc \in {"done", "failed"})
        => \A c \in Clients :
               \E p \in Procs :
                   clientSteps[c] = BulkResult(clientSteps[c], procs[p].mode)

=============================================================================
